---- MODULE Spec2Model ----
(***************************************************************************)
(* Model of homework.py: a bot that polls the homework-review API and      *)
(* relays status changes to one Telegram chat.                             *)
(*                                                                         *)
(* Encoding of the Python values:                                          *)
(*   - Python's None is the string None below; dict.get(k) of an absent    *)
(*     key is None as well, as in Python.                                  *)
(*   - The Russian texts of the source are written in Latin letters        *)
(*     (the parser reads ASCII only); each text keeps its own constant.    *)
(*   - A JSON body is a record: type is the Python type of the parsed      *)
(*     value, len its length (number of keys of a dict, value of an int),  *)
(*     homeworks and current_date the two keys the program reads.          *)
(*   - An exception is a record [kind, text]: its class and its str().     *)
(***************************************************************************)
EXTENDS Naturals, Sequences, FiniteSets, TLC

(* ------------------------------ bounds -------------------------------- *)
MaxHomeworks == 2
MaxDate == 1
StartTime == 0

(* ------------------------- program constants -------------------------- *)
None == "<None>"
Unbound == "<unbound>"
RETRY_PERIOD == 600
HTTP_OK == 200

HOMEWORK_VERDICTS ==
    [s \in {"approved", "reviewing", "rejected"} |->
        CASE s = "approved" -> "Rabota proverena: revyueru vsyo ponravilos. Ura!"
          [] s = "reviewing" -> "Rabota vzyata na proverku revyuerom."
          [] s = "rejected" -> "Rabota proverena: u revyuera est zamechaniya."]

NoNewStatuses == "Net novyh statusov."
FailurePrefix == "Sboy v rabote programmy: "

NoError == [kind |-> "", text |-> ""]
Exc(k, t) == [kind |-> k, text |-> t]

(* ------------------------------ inputs -------------------------------- *)
EnvNames == {"PRACTICUM_TOKEN", "TOKEN", "TELEGRAM_CHAT_ID"}
TokenValues == {None, "", "secret"}

Names == {None, "", "proj1", "x"}
Statuses == {None, "approved", "reviewing", "rejected", "unknown"}
HomeworkRecords == [homework_name : Names, status : Statuses]
\* The records after the first one, which the program never reads.
LaterRecords ==
    {[homework_name |-> "x", status |-> "approved"],
     [homework_name |-> "proj1", status |-> "rejected"],
     [homework_name |-> None, status |-> "unknown"]}
LaterLists == UNION {[1..n -> LaterRecords] : n \in 0..(MaxHomeworks - 1)}
HomeworkLists == {<<>>} \cup {<<h>> \o t : h \in HomeworkRecords, t \in LaterLists}

AbsentValue == [type |-> "absent", items |-> <<>>]
HomeworksValues ==
    {[type |-> "list", items |-> l] : l \in HomeworkLists}
    \cup {[type |-> t, items |-> <<>>] : t \in {"NoneType", "dict", "str"}}

AbsentDate == [present |-> FALSE, value |-> 0]
DateFields == {AbsentDate} \cup {[present |-> TRUE, value |-> d] : d \in 1..MaxDate}

Dict(h, c) ==
    [type |-> "dict",
     len |-> (IF h.type = "absent" THEN 0 ELSE 1) + (IF c.present THEN 1 ELSE 0),
     homeworks |-> h, current_date |-> c]
NonDict(t, n) == [type |-> t, len |-> n, homeworks |-> AbsentValue, current_date |-> AbsentDate]

Bodies ==
    {Dict(h, c) : h \in HomeworksValues \cup {AbsentValue}, c \in DateFields}
    \cup {NonDict(t, n) : t \in {"list", "str", "int"}, n \in {0, 1}}
    \cup {NonDict("NoneType", 0)}
NoResponse == NonDict("NoneType", 0)

StatusCodes == {200, 204, 500}
\* What requests.get and response.json() do: net and json are "ok" or the class
\* of the exception raised, exc is the str() of that exception, status_code,
\* reason and text are the fields of the response, body is the parsed JSON.
HttpOutcomes ==
    {[net |-> "RequestException", exc |-> "network down", status_code |-> 0,
      reason |-> "", text |-> "", json |-> "ok", body |-> NoResponse]}
    \cup {[net |-> "ok", exc |-> "", status_code |-> s, reason |-> "reason",
           text |-> "text", json |-> "ok", body |-> NoResponse] :
            s \in StatusCodes \ {HTTP_OK}}
    \cup {[net |-> "ok", exc |-> "Expecting value", status_code |-> HTTP_OK, reason |-> "",
           text |-> "", json |-> "JSONDecodeError", body |-> NoResponse]}
    \cup {[net |-> "ok", exc |-> "", status_code |-> HTTP_OK, reason |-> "", text |-> "",
           json |-> "ok", body |-> b] : b \in Bodies}

NoHttp ==
    [net |-> "none", exc |-> "", status_code |-> 0, reason |-> "", text |-> "",
     json |-> "ok", body |-> NoResponse]

BotOutcomes == {"ok", "ApiException", "RequestException", "OtherException"}

(* ----------------------------- variables ------------------------------ *)
VARIABLES
    env,                    \* the process environment read by os.getenv
    http,                   \* what requests.get and response.json did in the iteration
    pc,                     \* position of main
    reported,               \* names logged as missing by check_tokens
    timestamp,              \* main's local timestamp
    homeworks_status_dict,  \* homeworks_status_dict.get('verdict')
    last_verdict,           \* main's local last_verdict (Unbound: never assigned)
    response,               \* main's local response
    homeworks,              \* main's local homeworks
    verdict,                \* main's local verdict
    message,                \* the handler's local message
    error,                  \* the exception being handled or propagating
    from_date,              \* from_date of the latest request
    delivered,              \* the latest message the chat received
    undelivered,            \* the verdict whose latest send returned False
    bot_outcome,            \* what bot.send_message did on the latest call of the iteration
    send_result,            \* outcome of the latest send_message call of the iteration
    sends,                  \* calls of bot.send_message in the iteration
    sleeps                  \* calls of time.sleep in the iteration

vars == <<env, http, pc, reported, timestamp, homeworks_status_dict, last_verdict,
          response, homeworks, verdict, message, error, from_date, delivered,
          undelivered, bot_outcome, send_result, sends, sleeps>>

(* -------------------------- lines 26-28, 43-64 ------------------------ *)
Truthy(s) == s # None /\ s # ""

\* The module globals, as os.getenv loads them from the environment.
PRACTICUM_TOKEN == env["PRACTICUM_TOKEN"]
TELEGRAM_TOKEN == env["TOKEN"]
TELEGRAM_CHAT_ID == env["TELEGRAM_CHAT_ID"]

TokenNames == <<"PRACTICUM_TOKEN", "TELEGRAM_TOKEN", "TELEGRAM_CHAT_ID">>
tokens ==
    [n \in {TokenNames[i] : i \in 1..Len(TokenNames)} |->
        CASE n = "PRACTICUM_TOKEN" -> PRACTICUM_TOKEN
          [] n = "TELEGRAM_TOKEN" -> TELEGRAM_TOKEN
          [] n = "TELEGRAM_CHAT_ID" -> TELEGRAM_CHAT_ID]

\* The name under which check_tokens logs the value of an environment variable.
LoggedName(e) == IF e = "TOKEN" THEN "TELEGRAM_TOKEN" ELSE e

\* The for loop of check_tokens from item i on: acc is (all_tokens, names logged critical).
RECURSIVE check_tokens_loop(_, _, _)
check_tokens_loop(toks, i, acc) ==
    IF i > Len(TokenNames) THEN acc
    ELSE IF Truthy(toks[TokenNames[i]])
         THEN check_tokens_loop(toks, i + 1, acc)
         ELSE check_tokens_loop(toks, i + 1,
                  [all_tokens |-> FALSE, critical |-> acc.critical \cup {TokenNames[i]}])

\* The same loop leaving at the first missing value.
RECURSIVE check_tokens_loop_break(_, _, _)
check_tokens_loop_break(toks, i, acc) ==
    IF i > Len(TokenNames) THEN acc
    ELSE IF Truthy(toks[TokenNames[i]])
         THEN check_tokens_loop_break(toks, i + 1, acc)
         ELSE [all_tokens |-> FALSE, critical |-> acc.critical \cup {TokenNames[i]}]

check_tokens_break(toks) ==
    check_tokens_loop_break(toks, 1, [all_tokens |-> TRUE, critical |-> {}])

check_tokens(toks) ==
    check_tokens_loop(toks, 1, [all_tokens |-> TRUE, critical |-> {}])

(* ----------------------------- lines 67-80 ---------------------------- *)
\* bot is what bot.send_message does on this call. The result is what the call
\* of send_message gives: "True", "False", or "raised" with the exception; chat
\* is the message the chat received, None when it received none.

\* send_message without the second except clause.
send_message_uncaught(bot, msg) ==
    CASE bot = "ok" -> [result |-> "True", error |-> NoError, chat |-> msg]
      [] bot = "ApiException" -> [result |-> "False", error |-> NoError, chat |-> None]
      [] OTHER -> [result |-> "raised", error |-> Exc(bot, "send failed"), chat |-> None]

send_message(bot, msg) ==
    CASE bot = "ok" -> [result |-> "True", error |-> NoError, chat |-> msg]
      [] bot = "ApiException" -> [result |-> "False", error |-> NoError, chat |-> None]
      [] bot = "RequestException" -> [result |-> "False", error |-> NoError, chat |-> None]
      [] OTHER -> [result |-> "raised", error |-> Exc(bot, "send failed"), chat |-> None]

(* ----------------------------- lines 89-105 --------------------------- *)
\* str() of a value that may be None.
PyStr(v) == IF v = None THEN "None" ELSE v

ENDPOINT == "https://practicum.yandex.ru/api/user_api/homework_statuses/"
HEADERS == "{'Authorization': 'OAuth " \o PyStr(PRACTICUM_TOKEN) \o "'}"
\* Line 91, as the f-strings print it.
Params(ts) == "{'from_date': " \o ToString(ts) \o "}"
\* The tail shared by the two messages of get_api_answer.
RequestText(ts) == "URL: " \o ENDPOINT \o ", Headers: " \o HEADERS \o ", Parametry: " \o Params(ts)

\* Lines 95-98.
ConnectionError(ts, h) ==
    Exc("ConnectionError", "Sboy raboty API. Oshibka: " \o h.exc \o ". " \o RequestText(ts))

\* Lines 100-104.
APIResponseError(ts, h) ==
    Exc("APIResponseError",
        "Oshibka HTTP " \o ToString(h.status_code) \o ". Prichina: " \o h.reason
        \o ". Tekst otveta: " \o h.text \o ". " \o RequestText(ts))

\* get_api_answer without the test of the status code.
get_api_answer_any_status(ts, h) ==
    IF h.net # "ok"
    THEN [ok |-> FALSE, value |-> NoResponse, from_date |-> ts, error |-> ConnectionError(ts, h)]
    ELSE IF h.json # "ok"
    THEN [ok |-> FALSE, value |-> NoResponse, from_date |-> ts, error |-> Exc(h.json, h.exc)]
    ELSE [ok |-> TRUE, value |-> h.body, from_date |-> ts, error |-> NoError]

get_api_answer(ts, h) ==
    IF h.net # "ok"
    THEN [ok |-> FALSE, value |-> NoResponse, from_date |-> ts, error |-> ConnectionError(ts, h)]
    ELSE IF h.status_code # HTTP_OK
    THEN [ok |-> FALSE, value |-> NoResponse, from_date |-> ts, error |-> APIResponseError(ts, h)]
    ELSE IF h.json # "ok"
    THEN [ok |-> FALSE, value |-> NoResponse, from_date |-> ts, error |-> Exc(h.json, h.exc)]
    ELSE [ok |-> TRUE, value |-> h.body, from_date |-> ts, error |-> NoError]

(* ---------------------------- lines 108-132 --------------------------- *)
PyClass(t) == "<class '" \o t \o "'>"
\* str() of a KeyError is the repr of its argument: q is the quote repr chooses.
KeyError(arg, q) == Exc("KeyError", q \o arg \o q)

\* check_response without the test of the key.
check_response_one_kind(resp) ==
    IF resp.type = "NoneType" \/ resp.len = 0
    THEN [ok |-> FALSE, value |-> <<>>,
          error |-> Exc("TypeError", "Otvet API pustoy. Ozhidalsya nepustoy otvet.")]
    ELSE IF resp.type # "dict"
    THEN [ok |-> FALSE, value |-> <<>>,
          error |-> Exc("TypeError",
                        "Oshibka: ozhidaemyy slovar, a poluchen tip " \o PyClass(resp.type))]
    ELSE IF resp.homeworks.type # "list"
    THEN [ok |-> FALSE, value |-> <<>>,
          error |-> Exc("TypeError",
                        "Ozhidalsya tip list, no poluchen " \o PyClass(resp.homeworks.type))]
    ELSE [ok |-> TRUE, value |-> resp.homeworks.items, error |-> NoError]

\* check_response without the isinstance test of the response.
check_response_no_isinstance(resp) ==
    IF resp.type = "NoneType" \/ resp.len = 0
    THEN [ok |-> FALSE, value |-> <<>>,
          error |-> Exc("TypeError", "Otvet API pustoy. Ozhidalsya nepustoy otvet.")]
    ELSE IF resp.homeworks.type = "absent"
    THEN [ok |-> FALSE, value |-> <<>>,
          error |-> KeyError("Oshibka: otsutstvuet klyuch 'homeworks' v otvete API.", "\"")]
    ELSE IF resp.homeworks.type # "list"
    THEN [ok |-> FALSE, value |-> <<>>,
          error |-> Exc("TypeError",
                        "Ozhidalsya tip list, no poluchen " \o PyClass(resp.homeworks.type))]
    ELSE [ok |-> TRUE, value |-> resp.homeworks.items, error |-> NoError]

check_response(resp) ==
    IF resp.type = "NoneType" \/ resp.len = 0
    THEN [ok |-> FALSE, value |-> <<>>,
          error |-> Exc("TypeError", "Otvet API pustoy. Ozhidalsya nepustoy otvet.")]
    ELSE IF resp.type # "dict"
    THEN [ok |-> FALSE, value |-> <<>>,
          error |-> Exc("TypeError",
                        "Oshibka: ozhidaemyy slovar, a poluchen tip " \o PyClass(resp.type))]
    ELSE IF resp.homeworks.type = "absent"
    THEN [ok |-> FALSE, value |-> <<>>,
          error |-> KeyError("Oshibka: otsutstvuet klyuch 'homeworks' v otvete API.", "\"")]
    ELSE IF resp.homeworks.type # "list"
    THEN [ok |-> FALSE, value |-> <<>>,
          error |-> Exc("TypeError",
                        "Ozhidalsya tip list, no poluchen " \o PyClass(resp.homeworks.type))]
    ELSE [ok |-> TRUE, value |-> resp.homeworks.items, error |-> NoError]

(* ---------------------------- lines 135-155 --------------------------- *)
\* repr of a homework record; a key whose get() is None is taken as absent.
PyRepr(homework) ==
    "{"
    \o (IF homework.homework_name # None
        THEN "'homework_name': '" \o homework.homework_name \o "'" ELSE "")
    \o (IF homework.homework_name # None /\ homework.status # None THEN ", " ELSE "")
    \o (IF homework.status # None THEN "'status': '" \o homework.status \o "'" ELSE "")
    \o "}"

StatusMessage(homework_name, status) ==
    "Izmenilsya status proverki raboty \"" \o homework_name \o "\". "
    \o HOMEWORK_VERDICTS[status]

\* parse_status without the test of the table.
parse_status_any(homework) ==
    IF ~Truthy(homework.homework_name)
    THEN [ok |-> FALSE, message |-> None,
          error |-> KeyError("Oshibka: v dannyh otsutstvuet klyuch 'homework_name'. Dannye: "
                             \o PyRepr(homework), "\"")]
    ELSE IF homework.status = None
    THEN [ok |-> FALSE, message |-> None,
          error |-> KeyError("Oshibka: v dannyh otsutstvuet klyuch 'status'. Dannye: "
                             \o PyRepr(homework), "\"")]
    ELSE [ok |-> TRUE, error |-> NoError,
          message |-> "Izmenilsya status proverki raboty \"" \o homework.homework_name
                      \o "\". "
                      \o (IF homework.status \in DOMAIN HOMEWORK_VERDICTS
                          THEN HOMEWORK_VERDICTS[homework.status] ELSE None)]

parse_status(homework) ==
    IF ~Truthy(homework.homework_name)
    THEN [ok |-> FALSE, message |-> None,
          error |-> KeyError("Oshibka: v dannyh otsutstvuet klyuch 'homework_name'. Dannye: "
                             \o PyRepr(homework), "\"")]
    ELSE IF homework.status = None
    THEN [ok |-> FALSE, message |-> None,
          error |-> KeyError("Oshibka: v dannyh otsutstvuet klyuch 'status'. Dannye: "
                             \o PyRepr(homework), "\"")]
    ELSE IF homework.status \notin DOMAIN HOMEWORK_VERDICTS
    THEN [ok |-> FALSE, message |-> None,
          error |-> KeyError("Neizvestnyy status domashney raboty: " \o homework.status, "'")]
    ELSE [ok |-> TRUE, error |-> NoError,
          message |-> StatusMessage(homework.homework_name, homework.status)]


(* ------------------------- lines 172-182, 185 ------------------------- *)
\* Lines 174-178: the verdict of the list, or the exception parse_status raises.
\* Lines 174-178 taking the last homework of the list.
first_verdict_of_last(hws) ==
    IF hws # <<>>
    THEN parse_status(hws[Len(hws)])
    ELSE [ok |-> TRUE, message |-> NoNewStatuses, error |-> NoError]

first_verdict(hws) ==
    IF hws # <<>>
    THEN parse_status(hws[1])
    ELSE [ok |-> TRUE, message |-> NoNewStatuses, error |-> NoError]

\* Line 179 sending whatever is stored.
verdict_changed_always(v, stored) == TRUE

\* Line 179.
verdict_changed(v, stored) == v # stored

\* Line 181 without the test of line 180.
stored_verdict_always(result, v, stored) == v

\* Line 181: the stored verdict after send_message gave result.
stored_verdict(result, v, stored) == IF result = "True" THEN v ELSE stored

\* Line 182 without the test of line 180.
next_timestamp_any_result(result, resp, ts) ==
    IF resp.current_date.present THEN resp.current_date.value ELSE ts

\* Line 182 as response.get('current_date') with no default.
next_timestamp_no_default(result, resp, ts) ==
    IF result = "True" THEN resp.current_date.value ELSE ts

\* Line 182: response.get('current_date', timestamp), taken when the send succeeded.
next_timestamp(result, resp, ts) ==
    IF result = "True" /\ resp.current_date.present THEN resp.current_date.value ELSE ts

\* Line 185.
failure_message(e) == FailurePrefix \o e.text

UnboundLocalError ==
    Exc("UnboundLocalError",
        "cannot access local variable 'last_verdict' where it is not associated with a value")

(* ------------------------------- main --------------------------------- *)
Init ==
    /\ env \in [EnvNames -> TokenValues]
    /\ http = NoHttp
    /\ pc = "start"
    /\ reported = {}
    /\ timestamp = StartTime
    /\ homeworks_status_dict = None
    /\ last_verdict = Unbound
    /\ response = NoResponse
    /\ homeworks = <<>>
    /\ verdict = None
    /\ message = None
    /\ error = NoError
    /\ from_date = StartTime
    /\ delivered = None
    /\ undelivered = None
    /\ bot_outcome = "none"
    /\ send_result = "none"
    /\ sends = 0
    /\ sleeps = 0

\* Lines 160-163: a value is missing, main returns.
MainReturn ==
    /\ pc = "start"
    /\ ~check_tokens(tokens).all_tokens
    /\ reported' = check_tokens(tokens).critical
    /\ pc' = "returned"
    /\ UNCHANGED <<env, http, timestamp, homeworks_status_dict, last_verdict, response, homeworks,
                   verdict, message, error, from_date, delivered, undelivered, bot_outcome,
                   send_result, sends, sleeps>>

\* Lines 160, 165-167: main enters the loop.
MainStart ==
    /\ pc = "start"
    /\ check_tokens(tokens).all_tokens
    /\ reported' = check_tokens(tokens).critical
    /\ timestamp' = StartTime
    /\ homeworks_status_dict' = None
    /\ pc' = "fetch"
    /\ UNCHANGED <<env, http, last_verdict, response, homeworks, verdict, message, error,
                   from_date, delivered, undelivered, bot_outcome, send_result, sends,
                   sleeps>>

\* Line 171: an iteration starts with the request. sends, sleeps, bot_outcome and
\* send_result count per iteration and start again here; verdict, which the
\* iteration reads only after assigning it, starts again as well.
GetApiAnswer ==
    /\ pc = "fetch"
    /\ \E h \in HttpOutcomes :
         LET r == get_api_answer(timestamp, h) IN
         /\ http' = h
         /\ from_date' = r.from_date
         /\ response' = r.value
         /\ error' = r.error
         /\ pc' = IF r.ok THEN "check" ELSE "except"
    /\ verdict' = None
    /\ bot_outcome' = "none"
    /\ send_result' = "none"
    /\ sends' = 0
    /\ sleeps' = 0
    /\ UNCHANGED <<env, reported, timestamp, homeworks_status_dict, last_verdict, homeworks,
                   message, delivered, undelivered>>

\* Line 172.
CheckResponse ==
    /\ pc = "check"
    /\ LET c == check_response(response) IN
         /\ homeworks' = c.value
         /\ error' = c.error
         /\ pc' = IF c.ok THEN "parse" ELSE "except"
    /\ UNCHANGED <<env, http, reported, timestamp, homeworks_status_dict, last_verdict, response,
                   verdict, message, from_date, delivered, undelivered, bot_outcome,
                   send_result, sends, sleeps>>

\* Lines 174-178.
ParseStatus ==
    /\ pc = "parse"
    /\ LET p == first_verdict(homeworks) IN
         /\ verdict' = p.message
         /\ error' = p.error
         /\ pc' = IF p.ok THEN "compare" ELSE "except"
    /\ UNCHANGED <<env, http, reported, timestamp, homeworks_status_dict, last_verdict, response,
                   homeworks, message, from_date, delivered, undelivered, bot_outcome,
                   send_result, sends, sleeps>>

\* Lines 179-182, the verdict differs from the stored one.
Notify ==
    /\ pc = "compare"
    /\ verdict_changed(verdict, homeworks_status_dict)
    /\ \E bot \in BotOutcomes :
         LET s == send_message(bot, verdict) IN
         /\ sends' = sends + 1
         /\ bot_outcome' = bot
         /\ send_result' = s.result
         /\ delivered' = IF s.chat # None THEN s.chat ELSE delivered
         /\ undelivered' = IF s.result = "False" THEN verdict ELSE None
         /\ homeworks_status_dict' = stored_verdict(s.result, verdict, homeworks_status_dict)
         /\ timestamp' = next_timestamp(s.result, response, timestamp)
         /\ error' = s.error
         /\ pc' = IF s.result = "raised" THEN "except" ELSE "finally"
    /\ UNCHANGED <<env, http, reported, last_verdict, response, homeworks, verdict, message,
                   from_date, sleeps>>

\* Line 179, the verdict is the stored one.
Unchanged ==
    /\ pc = "compare"
    /\ ~verdict_changed(verdict, homeworks_status_dict)
    /\ pc' = "finally"
    /\ undelivered' = None
    /\ UNCHANGED <<env, http, reported, timestamp, homeworks_status_dict, last_verdict, response,
                   homeworks, verdict, message, error, from_date, delivered, bot_outcome,
                   send_result, sends, sleeps>>

\* Lines 184-190 as they would run with last_verdict assigned before the loop.
Except_initialised ==
    /\ pc = "except"
    /\ message' = failure_message(error)
    /\ IF last_verdict # failure_message(error)
       THEN \E bot \in BotOutcomes :
              LET s == send_message(bot, failure_message(error)) IN
              /\ sends' = sends + 1
              /\ bot_outcome' = bot
              /\ send_result' = s.result
              /\ delivered' = IF s.chat # None THEN s.chat ELSE delivered
              /\ IF s.result = "raised"
                 THEN /\ error' = s.error
                      /\ pc' = "finally_raise"
                      /\ UNCHANGED <<last_verdict, sleeps>>
                 ELSE /\ last_verdict' = failure_message(error)
                      /\ sleeps' = sleeps + 1
                      /\ error' = NoError
                      /\ pc' = "finally"
       ELSE /\ sleeps' = sleeps + 1
            /\ error' = NoError
            /\ pc' = "finally"
            /\ UNCHANGED <<last_verdict, delivered, bot_outcome, send_result, sends>>
    /\ UNCHANGED <<env, http, reported, timestamp, homeworks_status_dict, response, homeworks,
                   verdict, from_date, undelivered>>

\* Lines 184-190 with the handler keeping its message in homeworks_status_dict.
Except_in_dict ==
    /\ pc = "except"
    /\ message' = failure_message(error)
    /\ IF homeworks_status_dict # failure_message(error)
       THEN \E bot \in BotOutcomes :
              LET s == send_message(bot, failure_message(error)) IN
              /\ sends' = sends + 1
              /\ bot_outcome' = bot
              /\ send_result' = s.result
              /\ delivered' = IF s.chat # None THEN s.chat ELSE delivered
              /\ IF s.result = "raised"
                 THEN /\ error' = s.error
                      /\ pc' = "finally_raise"
                      /\ UNCHANGED <<homeworks_status_dict, sleeps>>
                 ELSE /\ homeworks_status_dict' = failure_message(error)
                      /\ sleeps' = sleeps + 1
                      /\ error' = NoError
                      /\ pc' = "finally"
       ELSE /\ sleeps' = sleeps + 1
            /\ error' = NoError
            /\ pc' = "finally"
            /\ UNCHANGED <<homeworks_status_dict, delivered, bot_outcome, send_result, sends>>
    /\ UNCHANGED <<env, http, reported, timestamp, last_verdict, response, homeworks,
                   verdict, from_date, undelivered>>

\* Lines 184-190. last_verdict is a local of main that only line 189 assigns, so
\* line 187 reads it unbound and raises out of the handler.
Except ==
    /\ pc = "except"
    /\ message' = failure_message(error)
    /\ IF last_verdict = Unbound
       THEN /\ error' = UnboundLocalError
            /\ pc' = "finally_raise"
            /\ UNCHANGED <<last_verdict, delivered, bot_outcome, send_result, sends, sleeps>>
       ELSE IF last_verdict # failure_message(error)
       THEN \E bot \in BotOutcomes :
              LET s == send_message(bot, failure_message(error)) IN
              /\ sends' = sends + 1
              /\ bot_outcome' = bot
              /\ send_result' = s.result
              /\ delivered' = IF s.chat # None THEN s.chat ELSE delivered
              /\ IF s.result = "raised"
                 THEN /\ error' = s.error
                      /\ pc' = "finally_raise"
                      /\ UNCHANGED <<last_verdict, sleeps>>
                 ELSE /\ last_verdict' = failure_message(error)
                      /\ sleeps' = sleeps + 1
                      /\ error' = NoError
                      /\ pc' = "finally"
       ELSE /\ sleeps' = sleeps + 1
            /\ error' = NoError
            /\ pc' = "finally"
            /\ UNCHANGED <<last_verdict, delivered, bot_outcome, send_result, sends>>
    /\ UNCHANGED <<env, http, reported, timestamp, homeworks_status_dict, response, homeworks,
                   verdict, from_date, undelivered>>

\* Line 193, then back to line 169, or out of main with the exception. response
\* and homeworks, which an iteration reads only after assigning them, are
\* forgotten here, with the outcome of the request.
Finally ==
    /\ pc \in {"finally", "finally_raise"}
    /\ sleeps' = sleeps + 1
    /\ pc' = IF pc = "finally" THEN "fetch" ELSE "crashed"
    /\ http' = NoHttp
    /\ response' = NoResponse
    /\ homeworks' = <<>>
    /\ UNCHANGED <<env, reported, timestamp, homeworks_status_dict, last_verdict, verdict,
                   message, error, from_date, delivered, undelivered, bot_outcome,
                   send_result, sends>>

Next ==
    \/ MainReturn
    \/ MainStart
    \/ GetApiAnswer
    \/ CheckResponse
    \/ ParseStatus
    \/ Notify
    \/ Unchanged
    \/ Except
    \/ Finally

Spec == Init /\ [][Next]_vars


(* ------------------------------ claims -------------------------------- *)
FinallyPcs == {"finally", "finally_raise"}

\* C1: in an iteration that reached the comparison of line 179 (fetch,
\* validation and parsing succeeded), a send is attempted if and only if the
\* verdict differs from the stored one; and no send is attempted for a verdict
\* that is the latest message the chat received, so that a run of iterations
\* computing one verdict delivers it at most once.
C1_SendIffVerdictChanged ==
    [][pc = "compare" =>
          /\ sends' \in {sends, sends + 1}
          /\ (sends' = sends + 1) <=> (verdict # homeworks_status_dict)
          /\ (verdict = delivered) => (sends' = sends /\ delivered' = delivered)]_vars

\* An iteration computed the verdict the chat already has and sent nothing.
C1_Witness ==
    /\ pc = "finally"
    /\ verdict # None
    /\ verdict = delivered
    /\ sends = 0

\* C2: the stored verdict is the latest message the chat received, and is
\* unset exactly when the chat received none.
C2_StoredIsDelivered ==
    /\ homeworks_status_dict = delivered
    /\ (homeworks_status_dict = None) <=> (delivered = None)

\* A verdict was delivered, and the send of a later, different one returned False.
C2_Witness ==
    /\ pc = "finally"
    /\ delivered # None
    /\ undelivered # None
    /\ undelivered # delivered

\* C3: a send of a changed verdict that returns False leaves the stored verdict
\* and timestamp as they were and records no delivery; and when the next
\* iteration computes that verdict again, the send is attempted again.
C3_FailedSendKeepsState ==
    [][pc = "compare" =>
          /\ (sends' = sends + 1 /\ send_result' = "False") =>
                /\ homeworks_status_dict' = homeworks_status_dict
                /\ homeworks_status_dict' # verdict
                /\ timestamp' = timestamp
                /\ delivered' = delivered
          /\ (undelivered # None /\ verdict = undelivered) => sends' = sends + 1]_vars

\* The send of a verdict returned False, the response carried a current_date the
\* timestamp did not take, and the next iteration computed the same verdict.
C3_Witness ==
    /\ pc = "compare"
    /\ undelivered # None
    /\ verdict = undelivered
    /\ verdict # homeworks_status_dict
    /\ response.current_date.present
    /\ response.current_date.value # timestamp

\* C4: an iteration never ends the loop: the step after the sleep of line 193
\* is the next request.
C4_LoopSurvivesErrors ==
    [][(pc \in FinallyPcs) => (pc' = "fetch")]_vars

\* The first homework of the response of this iteration has a status that is
\* not in the table.
FirstStatusUnknown ==
    /\ response.type = "dict"
    /\ response.homeworks.type = "list"
    /\ response.homeworks.items # <<>>
    /\ response.homeworks.items[1].status # None
    /\ response.homeworks.items[1].status \notin DOMAIN HOMEWORK_VERDICTS

\* C5: an iteration whose first homework has a status outside the table raises,
\* sleeps, and is followed by a request with the timestamp and the stored
\* verdict it started with.
C5_UnknownStatusRetries ==
    [][(pc \in FinallyPcs /\ FirstStatusUnknown) =>
          /\ pc' = "fetch"
          /\ timestamp' = from_date
          /\ homeworks_status_dict' = homeworks_status_dict]_vars

MissingEnv == {e \in EnvNames : ~Truthy(env[e])}

\* C6: when a required value is empty or absent, check_tokens logs every missing
\* one, main returns, and nothing is requested, sent or slept.
C6_MissingTokenStops ==
    MissingEnv # {} =>
        /\ pc \in {"start", "returned"}
        /\ pc = "returned" => reported = {LoggedName(e) : e \in MissingEnv}
        /\ response = NoResponse
        /\ delivered = None
        /\ sends = 0
        /\ sleeps = 0

\* main returned with two values missing, the first and the last, both logged.
C6_Witness ==
    /\ pc = "returned"
    /\ reported = {"PRACTICUM_TOKEN", "TELEGRAM_CHAT_ID"}

\* C7: timestamp changes only in the step that delivers a changed verdict, and
\* then to the current_date of the response; that step keeps it when the
\* response has no current_date; every request carries timestamp as from_date,
\* and an iteration that delivered nothing ends with the timestamp it started with.
C7_TimestampFrame ==
    [][/\ (timestamp' # timestamp) =>
              /\ pc = "compare"
              /\ verdict # homeworks_status_dict
              /\ send_result' = "True"
              /\ delivered' = verdict
              /\ response.current_date.present
              /\ timestamp' = response.current_date.value
       /\ (pc = "compare" /\ sends' = sends + 1 /\ send_result' = "True") =>
              timestamp' = IF response.current_date.present
                           THEN response.current_date.value ELSE timestamp
       /\ (pc = "fetch") => from_date' = timestamp
       /\ (pc \in FinallyPcs /\ send_result # "True") => timestamp' = from_date]_vars

\* A changed verdict was delivered and the timestamp moved to the current_date.
C7_Witness ==
    /\ pc = "finally"
    /\ send_result = "True"
    /\ response.current_date.present
    /\ timestamp = response.current_date.value
    /\ timestamp # from_date

\* C8 as stated: no call of send_message raises.
C8_NeverRaises == send_result # "raised"

\* C8 amended: send_message returns True exactly when the bot send succeeded,
\* returns False when the bot send raised ApiException or RequestException, and
\* lets any other exception of the bot send through to the caller.
C8_CatchesApiAndNetwork ==
    /\ (send_result = "True") <=> (bot_outcome = "ok")
    /\ (send_result = "False") <=> (bot_outcome \in {"ApiException", "RequestException"})
    /\ (send_result = "raised") <=>
          (bot_outcome \notin {"none", "ok", "ApiException", "RequestException"})
    /\ (pc = "except" /\ send_result = "raised") => error.kind = bot_outcome

\* The bot send failed with a network error and send_message returned False.
C8_Witness ==
    /\ bot_outcome = "RequestException"
    /\ send_result = "False"
    /\ pc = "finally"

ValidHomework(h) ==
    /\ h.homework_name # None
    /\ h.homework_name # ""
    /\ h.status \in {"approved", "reviewing", "rejected"}

ExpectedMessage(h) ==
    "Izmenilsya status proverki raboty \"" \o h.homework_name \o "\". "
    \o (CASE h.status = "approved" -> "Rabota proverena: revyueru vsyo ponravilos. Ura!"
          [] h.status = "reviewing" -> "Rabota vzyata na proverku revyuerom."
          [] h.status = "rejected" -> "Rabota proverena: u revyuera est zamechaniya.")

\* C9: parse_status of the first homework gives a message exactly when the name
\* is present and non-empty and the status is a key of the table, and the
\* message is then the fixed text around that name and that table entry; in
\* every other case it raises KeyError and gives no message.
C9_ParseStatus ==
    [][(pc = "parse" /\ homeworks # <<>>) =>
          /\ ValidHomework(homeworks[1]) =>
                /\ pc' = "compare"
                /\ verdict' = ExpectedMessage(homeworks[1])
                /\ error' = NoError
          /\ ~ValidHomework(homeworks[1]) =>
                /\ pc' = "except"
                /\ verdict' = None
                /\ error'.kind = "KeyError"]_vars

\* parse_status raised KeyError for a named homework whose status is not in the table.
C9_Witness ==
    /\ pc = "except"
    /\ error.kind = "KeyError"
    /\ homeworks # <<>>
    /\ homeworks[1].homework_name = "x"
    /\ homeworks[1].status = "unknown"
    /\ verdict = None

\* C10: for a non-empty mapping, check_response raises KeyError when the key
\* homeworks is missing, TypeError when its value is not a list, and returns
\* the value, empty or not, when it is a list.
C10_CheckResponse ==
    [][(pc = "check" /\ response.type = "dict" /\ response.len > 0) =>
          /\ response.homeworks.type = "absent" =>
                (pc' = "except" /\ error'.kind = "KeyError")
          /\ response.homeworks.type \notin {"absent", "list"} =>
                (pc' = "except" /\ error'.kind = "TypeError")
          /\ response.homeworks.type = "list" =>
                /\ pc' = "parse"
                /\ homeworks' = response.homeworks.items
                /\ error' = NoError]_vars

\* check_response raised KeyError for a mapping that has current_date only.
C10_Witness ==
    /\ pc = "except"
    /\ error.kind = "KeyError"
    /\ response.type = "dict"
    /\ response.len = 1
    /\ response.homeworks.type = "absent"

\* The defect of a response, of the four that validation names, in their order.
Defect(b) ==
    IF b.type = "NoneType" \/ b.len = 0 THEN "empty"
    ELSE IF b.type # "dict" THEN "not a mapping"
    ELSE IF b.homeworks.type = "absent" THEN "missing key"
    ELSE IF b.homeworks.type # "list" THEN "not a list"
    ELSE "none"

\* check_response has just raised for the response of this iteration.
CheckResponseRaised ==
    /\ pc = "except"
    /\ Defect(response) # "none"
    /\ error = check_response(response).error

\* C11 as stated: the class of the error check_response raised is raised for no
\* response with another of the four defects.
C11_KindsPairwiseDistinct ==
    CheckResponseRaised =>
        \A b \in Bodies :
            Defect(b) \notin {"none", Defect(response)} =>
                check_response(b).error.kind # error.kind

\* C11 amended: check_response raises KeyError for the missing key and TypeError
\* for the three other defects; the error raised, class and text together, is
\* raised for no response with another defect.
C11_KindAndTextDistinct ==
    CheckResponseRaised =>
        /\ error.kind = (IF Defect(response) = "missing key" THEN "KeyError" ELSE "TypeError")
        /\ \A b \in Bodies :
              Defect(b) \notin {"none", Defect(response)} =>
                  check_response(b).error # error

\* check_response raised TypeError for a non-empty list, the class it also
\* raises for an empty response and for a value of homeworks that is not a list.
C11_Witness ==
    /\ CheckResponseRaised
    /\ response.type = "list"
    /\ response.len = 1
    /\ error.kind = "TypeError"

DownstreamKinds == {"TypeError", "KeyError"}

\* C12 as stated: a network failure gives the connectivity error, a status that
\* is not a success status (2xx) the response error, and anything else the body.
C12_NonSuccessStatusOnly ==
    [][pc = "fetch" =>
          /\ http'.net # "ok" => (pc' = "except" /\ error'.kind = "ConnectionError")
          /\ (http'.net = "ok" /\ http'.status_code \notin 200..299) =>
                (pc' = "except" /\ error'.kind = "APIResponseError")
          /\ (http'.net = "ok" /\ http'.status_code \in 200..299) =>
                (pc' = "check" /\ response' = http'.body /\ error' = NoError)]_vars

\* C12 amended: a network failure gives ConnectionError, a status other than
\* 200 gives APIResponseError, a body of a 200 response that does not parse
\* gives the error of response.json(), and otherwise the parsed body is
\* returned; ConnectionError and APIResponseError differ from each other and
\* are raised by neither check_response nor parse_status.
C12_GetApiAnswer ==
    [][/\ pc = "fetch" =>
             /\ http'.net # "ok" => (pc' = "except" /\ error'.kind = "ConnectionError")
             /\ (http'.net = "ok" /\ http'.status_code # 200) =>
                   (pc' = "except" /\ error'.kind = "APIResponseError")
             /\ (http'.net = "ok" /\ http'.status_code = 200 /\ http'.json # "ok") =>
                   (pc' = "except" /\ error'.kind = http'.json)
             /\ (http'.net = "ok" /\ http'.status_code = 200 /\ http'.json = "ok") =>
                   (pc' = "check" /\ response' = http'.body /\ error' = NoError)
       /\ (pc \in {"check", "parse"} /\ pc' = "except") =>
             /\ error'.kind \in DownstreamKinds
             /\ error'.kind \notin {"ConnectionError", "APIResponseError"}]_vars

\* get_api_answer raised APIResponseError for a response with status 204.
C12_Witness ==
    /\ pc = "except"
    /\ http.net = "ok"
    /\ http.status_code = 204
    /\ error.kind = "APIResponseError"

\* C13: an iteration sleeps exactly once, in its finally block, whatever its
\* outcome: sleep is called nowhere else, the count is one when the next
\* request is made and one when an exception ends main.
C13_OneSleepPerIteration ==
    [][/\ (sleeps' # sleeps) => (pc \in FinallyPcs \/ pc = "fetch")
       /\ (pc \in FinallyPcs) => (sleeps = 0 /\ sleeps' = 1)
       /\ (pc = "fetch") => sleeps' = 0
       /\ (pc' \in {"fetch", "crashed"} /\ pc \notin {"start", "fetch", "crashed"}) =>
             sleeps' = 1]_vars

\* An iteration whose send returned False has slept once and the next request is due.
C13_Witness ==
    /\ pc = "fetch"
    /\ sleeps = 1
    /\ send_result = "False"

\* C14: the handler formats the failure message and, when it differs from the
\* last failure message sent (none has been sent while last_verdict is
\* unassigned), attempts to send it.
C14_FailureMessageSentOnce ==
    [][pc = "except" =>
          /\ message' = "Sboy v rabote programmy: " \o error.text
          /\ (last_verdict # message') => sends' = sends + 1
          /\ (last_verdict = message') => sends' = sends]_vars

\* C15: the verdict of an iteration is that of the first homework alone (every
\* list with the same first element gives the same result), the verdict of an
\* empty list is the fixed text, and the fixed text is not sent when it is the
\* latest message the chat received.
C15_FirstHomeworkOnly ==
    [][/\ (pc = "parse" /\ homeworks # <<>>) =>
             \A l \in HomeworkLists :
                 (l # <<>> /\ l[1] = homeworks[1]) =>
                     /\ first_verdict(l).message = verdict'
                     /\ first_verdict(l).error = error'
                     /\ first_verdict(l).ok = (pc' = "compare")
       /\ (pc = "parse" /\ homeworks = <<>>) =>
             (pc' = "compare" /\ verdict' = "Net novyh statusov.")
       /\ (pc = "compare" /\ homeworks = <<>> /\ delivered = "Net novyh statusov.") =>
             (pc' = "finally" /\ sends' = sends /\ delivered' = delivered)]_vars

\* The verdict of a list of two is that of its first homework; the second has no
\* name and an unknown status.
C15_Witness ==
    /\ pc = "compare"
    /\ Len(homeworks) = 2
    /\ homeworks[1] = [homework_name |-> "proj1", status |-> "approved"]
    /\ homeworks[2] = [homework_name |-> None, status |-> "unknown"]
    /\ verdict = ExpectedMessage(homeworks[1])

\* C16: no iteration calls bot.send_message more than once.
C16_AtMostOneSend == sends <= 1

\* The send of the verdict raised, the handler ran, and nothing more was sent.
C16_Witness ==
    /\ pc = "finally_raise"
    /\ send_result = "raised"
    /\ message # None
    /\ sends = 1

\* C17: the stored verdict is unset, the fixed text, or a message of
\* parse_status, and never the failure message the handler formatted.
C17_StoredIsVerdict ==
    /\ homeworks_status_dict \in
          {None, "Net novyh statusov."}
          \cup {ExpectedMessage(h) : h \in {r \in HomeworkRecords : ValidHomework(r)}}
    /\ message # None => homeworks_status_dict # message

\* A verdict is stored and the handler has formatted a failure message.
C17_Witness ==
    /\ pc = "finally_raise"
    /\ message # None
    /\ homeworks_status_dict = "Net novyh statusov."

====
